---- MODULE Spec2Model ----
(***************************************************************************)
(* Model of allusion: the odds tables of utils.py (_df_best_odds,          *)
(* get_df_best_odds, check_arbitrage) and the collection pipeline and      *)
(* catalog loaders of scraper.py (Scraper).                                *)
(*                                                                         *)
(* A pandas DataFrame is a record [cols, index, data]: the ordered column  *)
(* names, the row labels, and one row (a function from column name to      *)
(* value) per label.  A column name is the sequence of its "_"-separated   *)
(* tokens, so that `"odds" in col` and col.replace("odds", "book") are     *)
(* computed on the name as the code computes them.  A float is a record    *)
(* [cls, num]: NaN, Inf, or a finite value in units of 1/Unit.             *)
(***************************************************************************)
EXTENDS Integers, Sequences, FiniteSets, TLC

VARIABLES
    df,         \* the caller's input table of the utils.py functions
    outs,       \* the results of the successive calls on df, oldest first
    re,         \* the result of get_df_best_odds on its own output
    sel,        \* one match group of df and what _df_best_odds returns on it
    \* Scraper.get_odds
    catalog,    \* self._leagues, flattened in the order the nested loops visit it
    pc,         \* where get_odds is: idle, loop, matches, done, raised
    li,         \* the league the loop of lines 309-311 is at
    mi,         \* the match the loop of line 220 is at
    n_matches,  \* how many match links the league page listed
    full_data,  \* the observations collected in the league so far
    odds_df,    \* the table get_odds accumulates (its local df)
    visited,    \* the leagues _get_odds_from_league was called for, in order
    returned,   \* the tables _get_odds_from_league returned, in order
    cause,      \* where the exception that ended get_odds was raised
    last_read,  \* the latest match read: what happened and what it returned
    \* Scraper._load_sports, _load_countries, _load_leagues
    reload,         \* self._config.get("reload_file_data")
    site_sports,    \* whether the site lists a sport the config asks for
    files,          \* the catalog files: missing, or holding an empty or a full dict
    self_sports,    \* whether self._sports is non-empty
    self_countries, \* whether self._countries is non-empty
    self_leagues,   \* whether self._leagues is non-empty
    force_reload,   \* self._force_reload
    stack,          \* the call stack, innermost call last
    retval,         \* the value the call that returned last gave back
    runs,           \* how often each scrape step was run (saturating at MaxRuns)
    status          \* idle, running, done or RecursionError

utilVars == <<df, outs, re, sel>>
pipeVars == <<catalog, pc, li, mi, n_matches, full_data, odds_df, visited, returned,
              cause, last_read>>
loadVars == <<reload, site_sports, files, self_sports, self_countries,
              self_leagues, force_reload,
              stack, retval, runs, status>>
vars == <<utilVars, pipeVars, loadVars>>

(***************************************************************************)
(* Bounds                                                                  *)
(***************************************************************************)
MaxObs == 2      \* observations in a table
MaxRows == 2     \* Best-Odds Rows in a table
MaxCalls == 2    \* calls of one function on the same table
MaxLeagues == 2  \* leagues in the catalog
MaxMatches == 2  \* match links on a league page
MaxBooks == 2    \* bookmakers quoting a match
MaxDepth == 8    \* nested calls before the interpreter raises RecursionError
MaxRuns == 2     \* the run counters saturate here

(***************************************************************************)
(* Floats                                                                  *)
(***************************************************************************)
Unit == 2 * 3    \* finite floats are multiples of 1/Unit; 1/2 and 1/3 are exact

NaN == [cls |-> "nan", num |-> 0]
Inf == [cls |-> "inf", num |-> 0]
Fin(n) == [cls |-> "fin", num |-> n]
Odds(k) == Fin(k * Unit)          \* the decimal odds k.0
One == Fin(Unit)

isna(v) == v.cls = "nan"

\* 1 / v on floats: 1/0.0 is inf (numpy true division), NaN propagates
Recip(v) ==
    CASE v.cls = "nan" -> NaN
      [] v.cls = "inf" -> Fin(0)
      [] v.num = 0 -> Inf
      [] OTHER -> Fin((Unit * Unit) \div v.num)

FAdd(a, b) ==
    CASE a.cls = "nan" \/ b.cls = "nan" -> NaN
      [] a.cls = "inf" \/ b.cls = "inf" -> Inf
      [] OTHER -> Fin(a.num + b.num)

\* a < b on floats: False when either side is NaN
FLess(a, b) ==
    CASE a.cls = "nan" \/ b.cls = "nan" -> FALSE
      [] a.cls = "inf" -> FALSE
      [] b.cls = "inf" -> TRUE
      [] OTHER -> a.num < b.num

(***************************************************************************)
(* Column names                                                            *)
(***************************************************************************)
LEAGUE == <<"league">>
MATCH == <<"match">>
BOOK == <<"book">>
NOTE == <<"note">>
HOME_ODDS == <<"home", "odds">>
DRAW_ODDS == <<"draw", "odds">>
AWAY_ODDS == <<"away", "odds">>
RECIPROCAL_SUM == <<"reciprocal", "sum">>
ARBITRAGE == <<"arbitrage">>

\* tok in col
Contains(col, tok) == \E i \in 1..Len(col) : col[i] = tok

\* col.replace(a, b)
Replace(col, a, b) == [i \in 1..Len(col) |-> IF col[i] = a THEN b ELSE col[i]]

Range(s) == {s[i] : i \in 1..Len(s)}

\* every column but the match name taken for an odds column
odds_columns_all_numeric(cols) == SelectSeq(cols, LAMBDA c : c # <<"match">>)

\* [col for col in df.columns if "odds" in col]
odds_columns(cols) == SelectSeq(cols, LAMBDA c : Contains(c, "odds"))

(***************************************************************************)
(* Frames and Series                                                       *)
(***************************************************************************)
Frame(cols, index, data) ==
    [kind |-> "frame", cols |-> cols, index |-> index, data |-> data]
Series(fields, val) == [kind |-> "series", fields |-> fields, val |-> val]
Raised(exc) == [kind |-> "raised", exc |-> exc]
EmptyFrame == Frame(<<>>, <<>>, <<>>)

RangeIndex(n) == [i \in 1..n |-> i - 1]

\* the positions 1..n, in order, that satisfy Keep
Positions(n, Keep(_)) == SelectSeq([i \in 1..n |-> i], Keep)

\* df[mask]: the rows at the kept positions, with their labels
Take(f, pos) ==
    Frame(f.cols, [i \in 1..Len(pos) |-> f.index[pos[i]]],
          [i \in 1..Len(pos) |-> f.data[pos[i]]])

\* df[df[col] == v]
FilterEq(f, col, v) ==
    Take(f, Positions(Len(f.data), LAMBDA i : f.data[i][col] = v))

\* Series.unique(): the values in order of first appearance
RECURSIVE UniqueFrom(_, _, _)
UniqueFrom(s, i, acc) ==
    IF i > Len(s) THEN acc
    ELSE UniqueFrom(s, i + 1,
                    IF s[i] \in Range(acc) THEN acc ELSE Append(acc, s[i]))
unique(f, col) == UniqueFrom([i \in 1..Len(f.data) |-> f.data[i][col]], 1, <<>>)

\* df.drop(names, axis=1) on the column list
DropCols(cols, names) == SelectSeq(cols, LAMBDA c : c \notin names)

\* series[key] = v: overwrite the field, or append it
SeriesSet(s, key, v) ==
    Series(IF key \in Range(s.fields) THEN s.fields ELSE Append(s.fields, key),
           [c \in Range(s.fields) \cup {key} |-> IF c = key THEN v ELSE s.val[c]])

\* df[col].idxmax(): the label of the first row holding the largest non-missing
\* value; NaN when every value is missing (a ValueError in pandas 3)
NoLabel == 0 - 1

\* the label of the last row holding the largest value
idxmax_last(g, col) ==
    LET cand == {i \in 1..Len(g.data) : ~isna(g.data[i][col])}
    IN IF cand = {} THEN NoLabel
       ELSE g.index[CHOOSE i \in cand :
                \A j \in cand : /\ g.data[j][col].num <= g.data[i][col].num
                                /\ (g.data[j][col].num = g.data[i][col].num => j <= i)]

idxmax(g, col) ==
    LET cand == {i \in 1..Len(g.data) : ~isna(g.data[i][col])}
    IN IF cand = {} THEN NoLabel
       ELSE g.index[CHOOSE i \in cand :
                \A j \in cand : /\ g.data[j][col].num <= g.data[i][col].num
                                /\ (g.data[j][col].num = g.data[i][col].num => i <= j)]

\* df.at[label, col]
at(g, label, col) ==
    g.data[CHOOSE i \in 1..Len(g.index) : g.index[i] = label][col]

(***************************************************************************)
(* utils.py: _df_best_odds                                                 *)
(***************************************************************************)
\* the loop of lines 33-39 from the i-th odds column on
RECURSIVE BestLoop(_, _, _, _)
BestLoop(g, odds, i, tmp) ==
    IF i > Len(odds) THEN tmp
    ELSE LET col == odds[i]
             max_row_idx == idxmax(g, col)
         IN IF max_row_idx = NoLabel THEN Raised("KeyError")
            ELSE BestLoop(g, odds, i + 1,
                          SeriesSet(SeriesSet(tmp, col, at(g, max_row_idx, col)),
                                    Replace(col, "odds", "book"),
                                    at(g, max_row_idx, BOOK)))

_df_best_odds(g) ==
    LET odds == odds_columns(g.cols)
        meta == DropCols(g.cols, Range(odds) \cup {BOOK})
    IN IF BOOK \notin Range(DropCols(g.cols, Range(odds))) THEN Raised("KeyError")
       ELSE IF Len(g.data) = 0 THEN Raised("IndexError")
       ELSE BestLoop(g, odds, 1,
                     Series(meta, [c \in Range(meta) |-> g.data[1][c]]))

(***************************************************************************)
(* utils.py: get_df_best_odds                                              *)
(***************************************************************************)
\* the (league, match) pairs in the order the nested loops of lines 47-50
\* visit them
RECURSIVE GroupsFrom(_, _, _, _)
GroupsFrom(f, leagues, i, acc) ==
    IF i > Len(leagues) THEN acc
    ELSE LET lgs == FilterEq(f, LEAGUE, leagues[i])
             matches == unique(lgs, MATCH)
         IN GroupsFrom(f, leagues, i + 1,
                       acc \o [k \in 1..Len(matches) |-> <<leagues[i], matches[k]>>])
Groups(f) == GroupsFrom(f, unique(f, LEAGUE), 1, <<>>)

\* lgs[lgs["match"] == match] for lgs = df[df["league"] == league]
Group(f, key) == FilterEq(FilterEq(f, LEAGUE, key[1]), MATCH, key[2])

\* lines 51-56 for the i-th group on; parts is the list of the Series
\* concatenated so far (<<>>: the empty DataFrame of line 45)
RECURSIVE Accumulate(_, _, _, _)
Accumulate(f, groups, i, parts) ==
    IF i > Len(groups) THEN [kind |-> "parts", parts |-> parts]
    ELSE LET tmp == _df_best_odds(Group(f, groups[i]))
         IN IF tmp.kind = "raised" THEN tmp
            ELSE Accumulate(f, groups, i + 1, Append(parts, tmp))

\* new_df.T.reset_index(drop=True) of line 57
Finish(parts) ==
    CASE Len(parts) = 0 -> EmptyFrame
      [] Len(parts) = 1 ->
            \* new_df is the Series of line 54: .T leaves it alone and
            \* reset_index(drop=True) replaces its field names by 0..n-1
            [kind |-> "values",
             values |-> [i \in 1..Len(parts[1].fields) |->
                            parts[1].val[parts[1].fields[i]]]]
      [] OTHER ->
            Frame(parts[1].fields, RangeIndex(Len(parts)),
                  [i \in 1..Len(parts) |-> parts[i].val])

get_df_best_odds(f) ==
    IF f.kind # "frame" \/ LEAGUE \notin Range(f.cols) THEN Raised("KeyError")
    ELSE IF Len(f.data) > 0 /\ MATCH \notin Range(f.cols) THEN Raised("KeyError")
    ELSE LET new_df == Accumulate(f, Groups(f), 1, <<>>)
         IN IF new_df.kind = "raised" THEN new_df ELSE Finish(new_df.parts)

(***************************************************************************)
(* The tables of observations the calls are made on                        *)
(***************************************************************************)
Leagues == {"L1", "L2"}
Matches == {"A - B", "C - D"}
BookNames == <<"bet365", "pinnacle", "unibet", "bwin", "betfair">>
ObsOdds == {NaN, Odds(2), Odds(3)}

Cols2 == <<LEAGUE, MATCH, BOOK, HOME_ODDS, AWAY_ODDS>>
Cols3 == <<LEAGUE, MATCH, BOOK, HOME_ODDS, DRAW_ODDS, AWAY_ODDS>>

\* the table of n observations of a market with the columns cols, one per
\* bookmaker, labelled 0..n-1 as pd.DataFrame(full_data) and
\* pd.concat(..., ignore_index=True) label them
ObsTable(cols, n, key, odds) ==
    Frame(cols, RangeIndex(n),
          [i \in 1..n |->
             [c \in Range(cols) |->
                CASE c = LEAGUE -> key[i][1]
                  [] c = MATCH -> key[i][2]
                  [] c = BOOK -> BookNames[i]
                  [] OTHER -> odds[i][c]]])

NotCalled == [kind |-> "none"]

\* the state of the Scraper while the utils.py functions are exercised
PipeIdle ==
    /\ catalog = <<>> /\ pc = "idle" /\ li = 0 /\ mi = 0 /\ n_matches = 0
    /\ full_data = <<>> /\ odds_df = <<>> /\ visited = <<>> /\ returned = <<>>
    /\ cause = "none" /\ last_read = NotCalled

Fresh == [s \in {"sports", "countries", "leagues"} |-> 0]

LoadIdle ==
    /\ reload = "None" /\ site_sports = TRUE
    /\ files = [s \in {"sports", "countries", "leagues"} |-> "missing"]
    /\ self_sports = FALSE /\ self_countries = FALSE /\ self_leagues = FALSE
    /\ force_reload = FALSE
    /\ stack = <<>> /\ retval = FALSE /\ runs = Fresh /\ status = "idle"

UtilIdle ==
    /\ df = EmptyFrame /\ outs = <<>> /\ re = NotCalled /\ sel = NotCalled

InitBest ==
    /\ \/ \E n \in 0..MaxObs :
             \E key \in [1..n -> Leagues \X Matches] :
                \E odds \in [1..n -> [Range(odds_columns(Cols2)) -> ObsOdds]] :
                   df = ObsTable(Cols2, n, key, odds)
       \/ \E n \in 1..MaxObs :
             \E odds \in [1..n -> [Range(odds_columns(Cols3)) -> ObsOdds]] :
                df = ObsTable(Cols3, n, [i \in 1..n |-> <<"L1", "A - B">>], odds)
    /\ outs = <<>>
    /\ re = NotCalled
    /\ sel = NotCalled
    /\ PipeIdle
    /\ LoadIdle

\* _df_best_odds called on one match group of df, as line 52 calls it
DfBestOdds ==
    /\ sel = NotCalled
    /\ outs = <<>>
    /\ \E k \in 1..Len(Groups(df)) :
          LET g == Group(df, Groups(df)[k])
          IN sel' = [kind |-> "group", g |-> g, row |-> _df_best_odds(g)]
    /\ UNCHANGED <<df, outs, re, pipeVars, loadVars>>

\* a call get_df_best_odds(df): df is only read
GetDfBestOdds ==
    /\ sel = NotCalled
    /\ Len(outs) < MaxCalls
    /\ outs' = Append(outs, get_df_best_odds(df))
    /\ UNCHANGED <<df, re, sel, pipeVars, loadVars>>

\* a call of get_df_best_odds on the table the first call returned
Reaggregate ==
    /\ Len(outs) >= 1
    /\ outs[1].kind \in {"frame", "values"}
    /\ re = NotCalled
    /\ re' = get_df_best_odds(outs[1])
    /\ UNCHANGED <<df, outs, sel, pipeVars, loadVars>>

NextBest == DfBestOdds \/ GetDfBestOdds \/ Reaggregate

SpecBest == InitBest /\ [][NextBest]_vars

(***************************************************************************)
(* utils.py: check_arbitrage                                               *)
(***************************************************************************)
\* df[col] = vals: overwrite the column, or append it
FrameSet(f, col, vals) ==
    Frame(IF col \in Range(f.cols) THEN f.cols ELSE Append(f.cols, col),
          f.index,
          [i \in 1..Len(f.data) |->
             [c \in Range(f.cols) \cup {col} |->
                IF c = col THEN vals[i] ELSE f.data[i][c]]])

\* row.sum() over the columns cols from the i-th on, missing values skipped
RECURSIVE RowSum(_, _, _, _)
RowSum(row, cols, i, acc) ==
    IF i > Len(cols) THEN acc
    ELSE RowSum(row, cols, i + 1,
                IF isna(row[cols[i]]) THEN acc ELSE FAdd(acc, row[cols[i]]))

\* (1 / df[odds_columns]).sum(axis=1)
reciprocal_sum(f) ==
    LET odds == odds_columns(f.cols)
    IN [i \in 1..Len(f.data) |->
          RowSum([c \in Range(odds) |-> Recip(f.data[i][c])], odds, 1, Fin(0))]

\* the caller's table after lines 64-65 have added the two columns to it
check_arbitrage_df(f) ==
    LET s == FrameSet(f, RECIPROCAL_SUM, reciprocal_sum(f))
    IN FrameSet(s, ARBITRAGE,
                [i \in 1..Len(s.data) |-> FLess(s.data[i][RECIPROCAL_SUM], One)])

\* the table line 67 returns
check_arbitrage(f) ==
    FilterEq(check_arbitrage_df(f), ARBITRAGE, TRUE)

(***************************************************************************)
(* The tables of Best-Odds Rows the detector is called on                  *)
(***************************************************************************)
MatchNames == <<"A - B", "C - D", "E - F", "G - H">>
BestCols2 == <<MATCH, HOME_ODDS, AWAY_ODDS>>
BestCols3 == <<MATCH, HOME_ODDS, DRAW_ODDS, AWAY_ODDS>>
ArbOdds3 == {NaN, Odds(2), Odds(3)}      \* the odds drawn in a three-outcome table
ArbOdds2 == ArbOdds3 \cup {Fin(0)}       \* the odds drawn in a two-outcome table

\* the table of n Best-Odds Rows with the columns cols
BestTable(cols, n, odds) ==
    Frame(cols, RangeIndex(n),
          [i \in 1..n |->
             [c \in Range(cols) |->
                CASE c = MATCH -> MatchNames[i]
                  [] c = NOTE -> Odds(2)
                  [] OTHER -> odds[i][c]]])

InitArb ==
    /\ \E n \in 0..MaxRows :
          \/ \E cols \in {BestCols3, Append(BestCols3, NOTE)} :
                \E odds \in [1..n -> [Range(odds_columns(cols)) -> ArbOdds3]] :
                   df = BestTable(cols, n, odds)
          \/ \E cols \in {BestCols2, Append(BestCols2, NOTE)} :
                \E odds \in [1..n -> [Range(odds_columns(cols)) -> ArbOdds2]] :
                   df = BestTable(cols, n, odds)
    /\ outs = <<>>
    /\ re = NotCalled
    /\ sel = NotCalled
    /\ PipeIdle
    /\ LoadIdle

\* a call check_arbitrage(df): lines 64-65 write to the caller's table
CheckArbitrage ==
    /\ Len(outs) < MaxCalls
    /\ df' = check_arbitrage_df(df)
    /\ outs' = Append(outs, check_arbitrage(df))
    /\ UNCHANGED <<re, sel, pipeVars, loadVars>>

NextArb == CheckArbitrage

SpecArb == InitArb /\ [][NextArb]_vars

(***************************************************************************)
(* scraper.py: Scraper.get_odds, _get_odds_from_league, _get_odds_from_match *)
(***************************************************************************)
\* the (sport, country, league) leaves of a resolved catalog, in the order the
\* loops of lines 309-311 visit them
AllLeagues ==
    << <<"football", "england", "premier-league">>,
       <<"football", "england", "championship">>,
       <<"football", "spain", "laliga">>,
       <<"tennis", "usa", "us-open">> >>

\* what can happen to one match read: the steps of lines 237-245 are outside
\* the try of line 255, the parsing of lines 256-289 is inside it
Raising == {"navigation", "open_panel", "wait_content"}
Quiet == {"no_panel", "parse_error", "no_books"}

InitPipe ==
    /\ \E n \in 0..MaxLeagues : catalog = SubSeq(AllLeagues, 1, n)
    /\ pc = "idle" /\ li = 0 /\ mi = 0 /\ n_matches = 0
    /\ full_data = <<>> /\ odds_df = <<>> /\ visited = <<>> /\ returned = <<>>
    /\ cause = "none" /\ last_read = NotCalled
    /\ UtilIdle
    /\ LoadIdle

\* lines 296-308: get_odds starts with an empty table
GetOdds ==
    /\ pc = "idle"
    /\ pc' = "loop"
    /\ li' = 1
    /\ odds_df' = <<>>
    /\ UNCHANGED <<catalog, mi, n_matches, full_data, visited, returned, cause,
                   last_read, utilVars, loadVars>>

\* lines 207-219: the league page loads and lists n match links
LeagueListed ==
    /\ pc = "loop"
    /\ li <= Len(catalog)
    /\ \E n \in 0..MaxMatches : n_matches' = n
    /\ mi' = 1
    /\ full_data' = <<>>
    /\ visited' = Append(visited, li)
    /\ pc' = "matches"
    /\ UNCHANGED <<catalog, li, odds_df, returned, cause, last_read, utilVars,
                   loadVars>>

\* lines 208-216 raise (page.goto, wait_for_load_state, the link listing):
\* neither _get_odds_from_league nor the loop of get_odds catches it
LeagueRaises ==
    /\ pc = "loop"
    /\ li <= Len(catalog)
    /\ visited' = Append(visited, li)
    /\ pc' = "raised"
    /\ cause' = "league"
    /\ UNCHANGED <<catalog, li, mi, n_matches, full_data, odds_df, returned,
                   last_read, utilVars, loadVars>>

\* lines 221-226 with a match read that returns k observations
MatchRead ==
    /\ pc = "matches"
    /\ mi <= n_matches
    /\ \E k \in 1..MaxBooks :
          /\ full_data' = full_data \o
                [b \in 1..k |-> [league |-> catalog[li][3], match |-> mi,
                                 book |-> BookNames[b]]]
          /\ last_read' = [kind |-> "read", outcome |-> "ok", result |-> "data"]
    /\ mi' = mi + 1
    /\ UNCHANGED <<catalog, pc, li, n_matches, odds_df, visited, returned, cause,
                   utilVars, loadVars>>

\* lines 239-241 (no 1X2 panel), 290-292 (the parsing raised) or an empty
\* book list: _get_odds_from_match returns [] and line 223 goes on
MatchEmpty ==
    /\ pc = "matches"
    /\ mi <= n_matches
    /\ \E o \in Quiet :
          last_read' = [kind |-> "read", outcome |-> o, result |-> "empty"]
    /\ mi' = mi + 1
    /\ UNCHANGED <<catalog, pc, li, n_matches, full_data, odds_df, visited,
                   returned, cause, utilVars, loadVars>>

\* lines 237-245 raise: the exception leaves _get_odds_from_match,
\* _get_odds_from_league and get_odds
MatchRaises ==
    /\ pc = "matches"
    /\ mi <= n_matches
    /\ \E o \in Raising :
          last_read' = [kind |-> "read", outcome |-> o, result |-> "raised"]
    /\ pc' = "raised"
    /\ cause' = "match"
    /\ UNCHANGED <<catalog, li, mi, n_matches, full_data, odds_df, visited,
                   returned, utilVars, loadVars>>

\* lines 227-229 and 315-322: the league's table is returned and appended
LeagueDone ==
    /\ pc = "matches"
    /\ mi > n_matches
    /\ returned' = Append(returned, full_data)
    /\ odds_df' = IF odds_df = <<>> THEN full_data ELSE odds_df \o full_data
    /\ li' = li + 1
    /\ pc' = "loop"
    /\ UNCHANGED <<catalog, mi, n_matches, full_data, visited, cause, last_read,
                   utilVars, loadVars>>

\* line 324
GetOddsReturn ==
    /\ pc = "loop"
    /\ li > Len(catalog)
    /\ pc' = "done"
    /\ UNCHANGED <<catalog, li, mi, n_matches, full_data, odds_df, visited,
                   returned, cause, last_read, utilVars, loadVars>>

NextPipe ==
    \/ GetOdds \/ LeagueListed \/ LeagueRaises \/ MatchRead \/ MatchEmpty
    \/ MatchRaises \/ LeagueDone \/ GetOddsReturn

SpecPipe == InitPipe /\ [][NextPipe]_vars

(***************************************************************************)
(* scraper.py: Scraper._load_sports, _load_countries, _load_leagues,       *)
(* scrape_sports, scrape_countries, scrape_leagues                         *)
(*                                                                         *)
(* A catalog is known by whether it is empty, which is all the loaders     *)
(* test.  The call stack holds one record [fn, at] per active call; a call *)
(* made with MaxDepth calls active raises RecursionError.                  *)
(***************************************************************************)
ReloadValues == {"None", "all", "sports", "countries", "leagues"}
Loaders == {"load_sports", "load_countries", "load_leagues"}

InitLoad ==
    /\ reload \in ReloadValues
    /\ site_sports \in BOOLEAN
    /\ files \in [{"sports", "countries", "leagues"} -> {"missing", "empty", "full"}]
    /\ self_sports = FALSE /\ self_countries = FALSE /\ self_leagues = FALSE
    /\ force_reload = FALSE
    /\ stack = <<>> /\ retval = FALSE /\ runs = Fresh /\ status = "idle"
    /\ UtilIdle
    /\ PipeIdle

Top == stack[Len(stack)]
At(fn, label) ==
    status = "running" /\ Len(stack) > 0 /\ Top = [fn |-> fn, at |-> label]

\* the stack with the running call moved to label
Goto(label) == [stack EXCEPT ![Len(stack)].at = label]
\* the stack after the running call, moved to label, has called fn
Call(label, fn) == Append(Goto(label), [fn |-> fn, at |-> "start"])
Pop == SubSeq(stack, 1, Len(stack) - 1)
Full == Len(stack) >= MaxDepth

Ran(step) == [runs EXCEPT ![step] = IF @ < MaxRuns THEN @ + 1 ELSE @]

\* json.dump of a catalog by store_dict_to_json
Stored(nonempty) == IF nonempty THEN "full" ELSE "empty"

\* a caller's call of one of the three loaders on a new Scraper
Enter ==
    /\ status = "idle"
    /\ \E fn \in Loaders : stack' = <<[fn |-> fn, at |-> "start"]>>
    /\ status' = "running"
    /\ UNCHANGED <<reload, site_sports, files, self_sports, self_countries,
                   self_leagues, force_reload, retval, runs, utilVars, pipeVars>>

\* a call made with MaxDepth calls active
Overflow ==
    /\ status = "running"
    /\ Full
    /\ \/ At("load_sports", "start") /\ (reload \in {"all", "sports"} \/ force_reload)
       \/ At("load_countries", "start")
             /\ (reload \in {"all", "countries"} \/ force_reload
                 \/ files["countries"] = "missing")
       \/ At("load_countries", "reloaded")
       \/ At("load_leagues", "start")
             /\ (reload \in {"all", "leagues"} \/ force_reload
                 \/ files["leagues"] = "missing")
       \/ At("scrape_countries", "start") /\ ~self_sports
       \/ At("scrape_leagues", "start") /\ ~self_countries
    /\ status' = "RecursionError"
    /\ UNCHANGED <<reload, site_sports, files, self_sports, self_countries,
                   self_leagues, force_reload, stack, retval, runs, utilVars,
                   pipeVars>>

\* _load_sports, lines 54-65: scrape_sports (lines 116-135, which calls no
\* loader) runs, then the cascade goes on to _load_countries
LoadSportsReload ==
    /\ At("load_sports", "start")
    /\ reload \in {"all", "sports"} \/ force_reload
    /\ ~Full
    /\ runs' = Ran("sports")
    /\ files' = [files EXCEPT !["sports"] = Stored(site_sports)]
    /\ self_sports' = site_sports
    /\ force_reload' = TRUE
    /\ stack' = Call("return", "load_countries")
    /\ UNCHANGED <<reload, site_sports, self_countries, self_leagues, retval,
                   status, utilVars, pipeVars>>

\* _load_sports, lines 67-71: the file is read, or scraped when reading fails
LoadSportsFile ==
    /\ At("load_sports", "start")
    /\ ~(reload \in {"all", "sports"} \/ force_reload)
    /\ IF files["sports"] = "missing"
       THEN /\ runs' = Ran("sports")
            /\ files' = [files EXCEPT !["sports"] = Stored(site_sports)]
            /\ self_sports' = site_sports
       ELSE /\ self_sports' = (files["sports"] = "full")
            /\ UNCHANGED <<runs, files>>
    /\ stack' = Goto("return")
    /\ UNCHANGED <<reload, site_sports, self_countries, self_leagues,
                   force_reload, retval, status, utilVars, pipeVars>>

\* _load_countries, lines 74-83: scrape_countries is called
LoadCountriesReload ==
    /\ At("load_countries", "start")
    /\ reload \in {"all", "countries"} \/ force_reload
    /\ ~Full
    /\ stack' = Call("reloaded", "scrape_countries")
    /\ UNCHANGED <<reload, site_sports, files, self_sports, self_countries,
                   self_leagues, force_reload, retval, runs, status, utilVars,
                   pipeVars>>

\* _load_countries, lines 83-85: the result is kept and the cascade goes on to
\* _load_leagues
LoadCountriesCascade ==
    /\ At("load_countries", "reloaded")
    /\ ~Full
    /\ self_countries' = retval
    /\ force_reload' = TRUE
    /\ stack' = Call("return", "load_leagues")
    /\ UNCHANGED <<reload, site_sports, files, self_sports, self_leagues, retval,
                   runs, status, utilVars, pipeVars>>

\* _load_countries, lines 87-93: the file is read, or scrape_countries called
LoadCountriesFile ==
    /\ At("load_countries", "start")
    /\ ~(reload \in {"all", "countries"} \/ force_reload)
    /\ IF files["countries"] = "missing"
       THEN /\ ~Full
            /\ stack' = Call("scraped", "scrape_countries")
            /\ UNCHANGED self_countries
       ELSE /\ self_countries' = (files["countries"] = "full")
            /\ stack' = Goto("return")
    /\ UNCHANGED <<reload, site_sports, files, self_sports, self_leagues,
                   force_reload, retval, runs, status, utilVars, pipeVars>>

\* line 93: the result of the fallback scrape is kept
LoadCountriesScraped ==
    /\ At("load_countries", "scraped")
    /\ self_countries' = retval
    /\ stack' = Goto("return")
    /\ UNCHANGED <<reload, site_sports, files, self_sports, self_leagues,
                   force_reload, retval, runs, status, utilVars, pipeVars>>

\* scrape_countries, lines 138-139: the sports are loaded when there are none
ScrapeCountriesStart ==
    /\ At("scrape_countries", "start")
    /\ self_sports \/ ~Full
    /\ runs' = Ran("countries")
    /\ stack' = IF self_sports THEN Goto("body") ELSE Call("body", "load_sports")
    /\ UNCHANGED <<reload, site_sports, files, self_sports, self_countries,
                   self_leagues, force_reload, retval, status, utilVars, pipeVars>>

\* scrape_countries, lines 140-168: one entry per sport of self._sports
ScrapeCountriesBody ==
    /\ At("scrape_countries", "body")
    /\ retval' = self_sports
    /\ files' = [files EXCEPT !["countries"] = Stored(self_sports)]
    /\ stack' = Pop
    /\ UNCHANGED <<reload, site_sports, self_sports, self_countries, self_leagues,
                   force_reload, runs, status, utilVars, pipeVars>>

\* _load_leagues, lines 96-105 and 108-114: scrape_leagues is called, or the
\* file read
LoadLeaguesStart ==
    /\ At("load_leagues", "start")
    /\ IF reload \in {"all", "leagues"} \/ force_reload
       THEN /\ ~Full
            /\ stack' = Call("reloaded", "scrape_leagues")
            /\ UNCHANGED self_leagues
       ELSE IF files["leagues"] = "missing"
       THEN /\ ~Full
            /\ stack' = Call("scraped", "scrape_leagues")
            /\ UNCHANGED self_leagues
       ELSE /\ self_leagues' = (files["leagues"] = "full")
            /\ stack' = Goto("return")
    /\ UNCHANGED <<reload, site_sports, files, self_sports, self_countries,
                   force_reload, retval, runs, status, utilVars, pipeVars>>

\* _load_leagues, lines 105-107: the result is kept and the cascade ends
LoadLeaguesReloaded ==
    /\ At("load_leagues", "reloaded")
    /\ self_leagues' = retval
    /\ force_reload' = FALSE
    /\ stack' = Goto("return")
    /\ UNCHANGED <<reload, site_sports, files, self_sports, self_countries, retval,
                   runs, status, utilVars, pipeVars>>

\* line 114: the result of the fallback scrape is kept
LoadLeaguesScraped ==
    /\ At("load_leagues", "scraped")
    /\ self_leagues' = retval
    /\ stack' = Goto("return")
    /\ UNCHANGED <<reload, site_sports, files, self_sports, self_countries,
                   force_reload, retval, runs, status, utilVars, pipeVars>>

\* scrape_leagues, lines 171-172: the countries are loaded when there are none
ScrapeLeaguesStart ==
    /\ At("scrape_leagues", "start")
    /\ self_countries \/ ~Full
    /\ runs' = Ran("leagues")
    /\ stack' = IF self_countries THEN Goto("body")
                ELSE Call("body", "load_countries")
    /\ UNCHANGED <<reload, site_sports, files, self_sports, self_countries,
                   self_leagues, force_reload, retval, status, utilVars, pipeVars>>

\* scrape_leagues, lines 173-204: one entry per sport of self._countries
ScrapeLeaguesBody ==
    /\ At("scrape_leagues", "body")
    /\ retval' = self_countries
    /\ files' = [files EXCEPT !["leagues"] = Stored(self_countries)]
    /\ stack' = Pop
    /\ UNCHANGED <<reload, site_sports, self_sports, self_countries, self_leagues,
                   force_reload, runs, status, utilVars, pipeVars>>

\* a loader returns to its caller
Return ==
    /\ status = "running"
    /\ Len(stack) > 0
    /\ Top.fn \in Loaders
    /\ Top.at = "return"
    /\ stack' = Pop
    /\ status' = IF Len(stack) = 1 THEN "done" ELSE "running"
    /\ UNCHANGED <<reload, site_sports, files, self_sports, self_countries,
                   self_leagues, force_reload, retval, runs, utilVars, pipeVars>>

NextLoad ==
    \/ Enter \/ Overflow \/ Return
    \/ LoadSportsReload \/ LoadSportsFile
    \/ LoadCountriesReload \/ LoadCountriesCascade \/ LoadCountriesFile
    \/ LoadCountriesScraped \/ ScrapeCountriesStart \/ ScrapeCountriesBody
    \/ LoadLeaguesStart \/ LoadLeaguesReloaded \/ LoadLeaguesScraped
    \/ ScrapeLeaguesStart \/ ScrapeLeaguesBody

SpecLoad == InitLoad /\ [][NextLoad]_vars

(***************************************************************************)
(* Properties of the Best-Odds Aggregator                                  *)
(***************************************************************************)
BookCol(c) ==
    CASE c = HOME_ODDS -> <<"home", "book">>
      [] c = DRAW_ODDS -> <<"draw", "book">>
      [] c = AWAY_ODDS -> <<"away", "book">>

\* the rows of the group g that quote the column c
Quoted(g, c) == {i \in 1..Len(g.data) : g.data[i][c].cls = "fin"}

\* the first row of g, in group order, quoting the largest value of c
FirstBest(g, c) ==
    CHOOSE i \in Quoted(g, c) :
        /\ \A j \in Quoted(g, c) : g.data[j][c].num <= g.data[i][c].num
        /\ \A j \in Quoted(g, c) : j < i => g.data[j][c].num < g.data[i][c].num

\* C1: the row _df_best_odds emits for a non-empty match group holds, for every
\* outcome column present, the maximum of that column over the group (missing
\* values ignored) and the book of the first observation, in group order, that
\* quotes it; a single observation yields its own odds and book.
C1_BestOddsIsMax ==
    (sel.kind = "group" /\ sel.row.kind = "series") =>
        \A c \in {HOME_ODDS, DRAW_ODDS, AWAY_ODDS} \cap Range(sel.g.cols) :
            /\ Quoted(sel.g, c) # {}
            /\ sel.row.val[c] = sel.g.data[FirstBest(sel.g, c)][c]
            /\ sel.row.val[BookCol(c)] = sel.g.data[FirstBest(sel.g, c)][BOOK]
            /\ Len(sel.g.data) = 1 =>
                  /\ sel.row.val[c] = sel.g.data[1][c]
                  /\ sel.row.val[BookCol(c)] = sel.g.data[1][BOOK]

\* a group of two observations that tie on home_odds, the first of them
\* quoting no away_odds, for which a row was emitted
C1_Witness ==
    /\ sel.kind = "group"
    /\ sel.row.kind = "series"
    /\ Len(sel.g.data) = 2
    /\ sel.g.data[1][HOME_ODDS].cls = "fin"
    /\ sel.g.data[1][HOME_ODDS] = sel.g.data[2][HOME_ODDS]
    /\ isna(sel.g.data[1][AWAY_ODDS])
    /\ ~isna(sel.g.data[2][AWAY_ODDS])

\* the (league, match) pairs of f: a league before another when it occurs first
\* in f, and within a league a match before another when it occurs first
PairAt(f, i) == <<f.data[i][LEAGUE], f.data[i][MATCH]>>
FirstOf(f, col, v) == CHOOSE i \in 1..Len(f.data) :
    /\ f.data[i][col] = v
    /\ \A j \in 1..(i - 1) : f.data[j][col] # v
FirstPair(f, pr) == CHOOSE i \in 1..Len(f.data) :
    /\ PairAt(f, i) = pr
    /\ \A j \in 1..(i - 1) : PairAt(f, j) # pr
PairBefore(f, a, b) ==
    \/ FirstOf(f, LEAGUE, a[1]) < FirstOf(f, LEAGUE, b[1])
    \/ a[1] = b[1] /\ FirstPair(f, a) < FirstPair(f, b)
Pairs(f) == {PairAt(f, i) : i \in 1..Len(f.data)}

\* C5: for a table with at least one group, get_df_best_odds returns a table
\* with exactly one row per distinct (league, match) pair, ordered by first
\* occurrence of the league and then of the match within the league.  (Stated
\* for the calls that return: the calls that raise are C6's.)
C5_OneRowPerPair ==
    (Len(outs) >= 1 /\ Len(df.data) >= 1 /\ outs[1].kind # "raised") =>
        /\ outs[1].kind = "frame"
        /\ Len(outs[1].data) = Cardinality(Pairs(df))
        /\ {PairAt(outs[1], i) : i \in 1..Len(outs[1].data)} = Pairs(df)
        /\ \A i, j \in 1..Len(outs[1].data) :
              i < j => PairBefore(df, PairAt(outs[1], i), PairAt(outs[1], j))

\* the groups of f whose selection throws
Throwing(f) ==
    {k \in 1..Len(Groups(f)) : _df_best_odds(Group(f, Groups(f)[k])).kind = "raised"}

\* C6: when the selection for one match group throws, get_df_best_odds omits
\* that group and still emits the rows of every other group.
C6_FailingGroupSkipped ==
    (/\ Len(outs) >= 1
     /\ Throwing(df) # {}
     /\ Throwing(df) # 1..Len(Groups(df))) =>
        /\ outs[1].kind # "raised"
        /\ outs[1].kind = "frame" =>
              {PairAt(outs[1], i) : i \in 1..Len(outs[1].data)}
                 = {Groups(df)[k] : k \in (1..Len(Groups(df))) \ Throwing(df)}

\* C8: get_df_best_odds called on the table it returned succeeds and returns a
\* table with the same odds and book columns.
C8_Idempotent ==
    (re.kind # "none" /\ outs[1].kind = "frame") =>
        /\ re.kind = "frame"
        /\ Len(re.data) = Len(outs[1].data)
        /\ \A i \in 1..Len(re.data) :
              \A c \in {x \in Range(outs[1].cols) :
                          Contains(x, "odds") \/ Contains(x, "book")} :
                 re.data[i][c] = outs[1].data[i][c]

(***************************************************************************)
(* Properties of the Arbitrage Detector                                    *)
(***************************************************************************)
\* 1/odds of the outcome column c of a row, 0 when the row does not quote it
Term(row, c) ==
    IF c \in DOMAIN row /\ row[c].cls # "nan" THEN Recip(row[c]) ELSE Fin(0)

ExpectedSum(row) ==
    FAdd(FAdd(Term(row, HOME_ODDS), Term(row, DRAW_ODDS)), Term(row, AWAY_ODDS))

\* C2: check_arbitrage sets reciprocal_sum of each row to the sum of 1/odds over
\* exactly the outcome-odds columns the row quotes (a non-odds column does not
\* change it), arbitrage to true iff reciprocal_sum < 1, and returns exactly the
\* rows with arbitrage true, in input order.
C2_ReciprocalSum ==
    Len(outs) >= 1 =>
        /\ \A i \in 1..Len(df.data) :
              /\ df.data[i][RECIPROCAL_SUM] = ExpectedSum(df.data[i])
              /\ df.data[i][ARBITRAGE] =
                    (/\ ExpectedSum(df.data[i]).cls = "fin"
                     /\ ExpectedSum(df.data[i]).num < Unit)
        /\ \A k \in 1..Len(outs) :
              /\ outs[k].kind = "frame"
              /\ outs[k].data = SelectSeq(df.data, LAMBDA r : r[ARBITRAGE])

\* a table with a non-odds column whose first row is no arbitrage and whose
\* second row, quoting two of three outcomes, is one
C2_Witness ==
    /\ Len(outs) >= 1
    /\ NOTE \in Range(df.cols)
    /\ DRAW_ODDS \in Range(df.cols)
    /\ Len(df.data) = 2
    /\ ~df.data[1][ARBITRAGE]
    /\ df.data[2][ARBITRAGE]
    /\ isna(df.data[2][DRAW_ODDS])
    /\ Len(outs[1].data) = 1

\* the rows of f with an odds value of 0
ZeroOdds(f) ==
    {i \in 1..Len(f.data) :
        \E c \in {HOME_ODDS, DRAW_ODDS, AWAY_ODDS} \cap Range(f.cols) :
            f.data[i][c] = Fin(0)}

\* C4: a row with an odds value of 0 never gets an infinite reciprocal_sum and
\* is never reported as an arbitrage.
C4_ZeroOddsFails ==
    Len(outs) >= 1 =>
        \A i \in ZeroOdds(df) :
            /\ df.data[i][RECIPROCAL_SUM].cls # "inf"
            /\ ~df.data[i][ARBITRAGE]

\* C9: a call leaves the caller's table as it was, and a second call on the
\* same table returns what the first returned.
C9_SideEffectFree ==
    [][/\ df' = df
       /\ (Len(outs) >= 1 /\ Len(outs') > Len(outs)) =>
             outs'[Len(outs')] = outs[Len(outs)]]_vars

(***************************************************************************)
(* Properties of the Collection Pipeline                                   *)
(***************************************************************************)
RECURSIVE Concat(_, _)
Concat(tables, i) ==
    IF i > Len(tables) THEN <<>> ELSE tables[i] \o Concat(tables, i + 1)

\* the leagues whose fetch raised
FailedLeagues == IF pc = "raised" THEN {visited[Len(visited)]} ELSE {}

\* C3: a league whose fetch raises never aborts get_odds; every remaining
\* league is visited in catalog order and the table returned holds the rows of
\* every league that did not fail and no row of a failed one.  (Stated for the
\* league page's own failures: the failures of a match read are C7's.)
C3_LeagueFailureIsolated ==
    /\ ~(pc = "raised" /\ cause = "league")
    /\ pc = "done" =>
          /\ visited = [i \in 1..Len(catalog) |-> i]
          /\ odds_df = Concat(returned, 1)
          /\ \A i \in 1..Len(odds_df) :
                \E l \in 1..Len(catalog) :
                    l \notin FailedLeagues /\ catalog[l][3] = odds_df[i].league

\* C7: a failure at any step of a match read returns an empty observation list
\* and never propagates; the league goes on with the next match and keeps the
\* observations already collected.
C7_MatchFailureIsolated ==
    /\ (last_read.kind = "read" /\ last_read.outcome \in Raising \cup Quiet) =>
          last_read.result = "empty"
    /\ ~(pc = "raised" /\ cause = "match")

(***************************************************************************)
(* Properties of the catalog loaders                                       *)
(***************************************************************************)
\* C10: a call of a loader terminates after running each scrape step at most
\* once, and _force_reload is false when the cascade has finished.
C10_CascadeRunsOnce ==
    /\ status # "RecursionError"
    /\ \A step \in DOMAIN runs : runs[step] <= 1
    /\ status = "done" => ~force_reload

====
